---- MODULE Spec2Model ----
(***************************************************************************)
(* A model of the Apex Arc daily home-run prediction pipeline:             *)
(*   models/top30_hr_predictor.py   generate_top30_predictions             *)
(*   models/parlay_stack_builder.py build_parlay_stacks                    *)
(*   utils/data_fetcher.py          get_actual_hr_data                     *)
(*   trackers/hr_tracker.py         track_home_runs                        *)
(*   trackers/shadow_diagnostics.py run_shadow_diagnostics,                *)
(*                                  send_email_alerts                      *)
(*   run_daily_simulation.py        run_daily_simulation                   *)
(*                                                                         *)
(* The state is the content of the data/ directory (one table per CSV      *)
(* file, a table being the sequence of rows pandas reads from it), the     *)
(* calendar date, and the outcome of the last entry point that ran.        *)
(*                                                                         *)
(* Conventions.  Dates are day numbers.  HR_Score is held in tenths (the   *)
(* weights 0.4, 0.3, 0.2, 0.1 and 1 become 4, 3, 2, 1 and 10), a confidence*)
(* bonus in hundredths, so a Combined_Score is in units of 1/10000.  Rates *)
(* are compared by cross-multiplication.  Columns that no modelled code    *)
(* reads (Opponent, Position, Stadium, ...) are left out of the rows.      *)
(***************************************************************************)
EXTENDS Integers, Sequences, FiniteSets, TLC

VARIABLES today, fs, last, nops, feed

vars == <<today, fs, last, nops, feed>>

(***************************************************************************)
(* Bounds of the model.                                                    *)
(***************************************************************************)
\* Last calendar day of a behaviour (the first is day 1).
MaxDay == 2
\* Number of entry-point invocations in a behaviour.
MaxOps == 2
\* Rows of the largest table given to the Parlay Builder / Predictor alone.
MaxRows == 31

(***************************************************************************)
(* Program constants.                                                      *)
(***************************************************************************)
\* top30_hr_predictor.py:43   .head(30)
Top30Size == 30
\* parlay_stack_builder.py:30   top30.head(20)
Top20Size == 20
\* parlay_stack_builder.py:72   stacks_df.head(15)
TopStacks == 15
\* data_fetcher.py:145   max_retries = 3
max_retries == 3
\* shadow_diagnostics.py:24   range(1, 8): the days today-1 .. today-7
WindowDays == 7

(***************************************************************************)
(* Tables and files.                                                       *)
(***************************************************************************)
\* A missing value in a merged row (pandas NaN).
NaN == "NaN"

\* An optional file: present with rows, or absent.
NoFile == [exists |-> FALSE, rows |-> <<>>, date |-> 0]
File(rows, d) == [exists |-> TRUE, rows |-> rows, date |-> d]

\* A family of files keyed by date is a function whose domain is the set of
\* dates for which the file exists (os.path.exists).
Exists(dir, d) == d \in DOMAIN dir
Write(dir, d, rows) ==
    [x \in (DOMAIN dir) \cup {d} |-> IF x = d THEN rows ELSE dir[x]]

\* pd.read_csv of a file written by to_csv.  A field whose text is one of
\* the default na_values is read as missing.  "None" is one of them from
\* pandas 2.0 on and is read as the string before that; the repository pins no
\* pandas version, so na_none says which the installed one does.  Of the
\* columns the program writes, only Confidence can hold "None".
read_csv(file_rows, na_none) ==
    [i \in 1..Len(file_rows) |->
       IF na_none /\ "Confidence" \in DOMAIN file_rows[i]
                  /\ file_rows[i].Confidence = "None"
         THEN [file_rows[i] EXCEPT !.Confidence = NaN]
         ELSE file_rows[i]]

\* The element of a one-element set.  Only({e : x \in {v}}) is e with the
\* local variable x holding the value of v.
Only(S) == CHOOSE r \in S : TRUE

\* DataFrame.head(n)
HeadRows(df, n) ==
    Only({IF Len(rows) <= n THEN rows ELSE SubSeq(rows, 1, n) : rows \in {df}})

\* df[mask], boolean indexing: the rows i with mask[i], in order.  The k-th
\* row of the result is the row with k kept rows up to it.
Keep(df, mask) ==
    Only({Only({[k \in 1..(IF Len(rows) = 0 THEN 0 ELSE upto[Len(rows)]) |->
                   rows[CHOOSE i \in 1..Len(rows) : keep[i] /\ upto[i] = k]]
                : upto \in {[i \in 1..Len(keep) |->
                               Cardinality({j \in 1..i : keep[j]})]}})
          : rows \in {df}, keep \in {mask}})

\* A fraction num/den; "x / total if total > 0 else 0" is 0/1 when the
\* denominator is 0.  An integer n is n/1.
Rate(num, den) == IF den > 0 THEN [num |-> num, den |-> den]
                  ELSE [num |-> 0, den |-> 1]
RateBelow(r, percent) == 100 * r.num < percent * r.den
RateAbove(r, percent) == 100 * r.num > percent * r.den
RateGreater(a, b) == a.num * b.den > b.num * a.den

\* sort_values(column, ascending=False), keys[i] being the fraction in that
\* column of row i.  pandas' default sort is not stable: rows with equal keys
\* come out in an order the build chooses; keepTies picks between the input
\* order and its reverse among equal keys.
SortDescending(df, keys, keepTies) ==
    Only({[p \in 1..Len(rows) |-> rows[CHOOSE i \in 1..Len(rows) : rank[i] = p]]
          : rows \in {df},
            rank \in {Only({[i \in 1..Len(key) |->
                        1 + Cardinality({j \in 1..Len(key) :
                              \/ RateGreater(key[j], key[i])
                              \/ /\ ~RateGreater(key[i], key[j])
                                 /\ (IF keepTies THEN j < i ELSE j > i)})]
                            : key \in {keys}})}})

(***************************************************************************)
(* Predictor: models/top30_hr_predictor.py                                 *)
(***************************************************************************)
\* HR_Score, in tenths.
HRScore(r) ==
    4 * r.Barrel + 3 * r.LaunchAngleSweetSpot + 2 * r.xISO + r.WeatherBoost
    + 10 * (r.ParkFactorBoost + r.PitcherHRBoost + r.HotStreakBoost)

\* Percentile100 as it would be with method='lower': the order statistic
\* below the position, without interpolation.
Percentile100Lower(desc, q) ==
    100 * desc[Len(desc) - ((q * (Len(desc) - 1)) \div 100)].HR_Score

\* np.percentile(scores, q) with linear interpolation, times 100: with the
\* scores in ascending order a[0..n-1] and q*(n-1) = 100*lo + r,
\* the cutoff is a[lo] + (r/100)*(a[lo+1] - a[lo]).  `desc` holds the rows in
\* descending order of score, so a[i] is the score of row n - i.
Percentile100(desc, q) ==
    LET n  == Len(desc)
        lo == (q * (n - 1)) \div 100
        r  == (q * (n - 1)) % 100
    IN  IF r = 0 THEN 100 * desc[n - lo].HR_Score
        ELSE 100 * desc[n - lo].HR_Score
             + r * (desc[n - lo - 1].HR_Score - desc[n - lo].HR_Score)

\* score_cutoffs = np.percentile(top30['HR_Score'], [90, 75, 60])
ScoreCutoffs(top30) ==
    <<Percentile100(top30, 90), Percentile100(top30, 75), Percentile100(top30, 60)>>

\* np.select(conditions, ['A+', 'A', 'A-'], default='B+')
ConfidenceOf(score, score_cutoffs) ==
    IF 100 * score >= score_cutoffs[1] THEN "A+"
    ELSE IF 100 * score >= score_cutoffs[2] THEN "A"
    ELSE IF 100 * score >= score_cutoffs[3] THEN "A-"
    ELSE "B+"

\* player_df with the HR_Score column.
Scored(player_df) ==
    Only({[i \in 1..Len(rows) |-> rows[i] @@ [HR_Score |-> HRScore(rows[i])]]
          : rows \in {player_df}})

\* RankTop30 as it would be without sort_values.
RankTop30Unsorted(scored, keepTies) == HeadRows(scored, Top30Size)

\* player_df.sort_values(by='HR_Score', ascending=False).head(30)
RankTop30(scored, keepTies) ==
    HeadRows(SortDescending(scored,
                            [i \in 1..Len(scored) |-> Rate(scored[i].HR_Score, 1)],
                            keepTies),
             Top30Size)

\* The scored, ranked and tagged top-30 table (all columns).
Top30Of(player_df, keepTies) ==
    Only({[i \in 1..Len(top30) |->
             top30[i] @@ [Confidence |->
                            ConfidenceOf(top30[i].HR_Score,
                                         ScoreCutoffs(top30))]]
          : top30 \in {Only({RankTop30(scored, keepTies)
                             : scored \in {Scored(player_df)}})}})

\* top30[['Player', 'Team', 'Opponent', 'HR_Score', 'Confidence']]
Reduced(df) ==
    Only({[i \in 1..Len(top30) |->
             [Player |-> top30[i].Player, Team |-> top30[i].Team,
              HR_Score |-> top30[i].HR_Score,
              Confidence |-> top30[i].Confidence]]
          : top30 \in {df}})

\* A stage's outcome: the file system it leaves, and how it ended:
\*   st = "value"  it returned a table (rows),
\*   st = "none"   it returned None,
\*   st = "raised" it ended with an exception.
Outcome(f, st, rows) == [fs |-> f, st |-> st, rows |-> rows]

\* utils/data_fetcher.py get_raw_player_data: the table of
\* data/raw_player_stats.csv (when the file is missing the code writes a
\* generated table there and reads that).
get_raw_player_data(f) == f.raw_player_stats

\* apply_weather_overlay, apply_park_factor_overlay, apply_pitcher_overlay and
\* apply_batter_overlay, one after the other.  The overlays package is not
\* among the sources modelled; by the design each returns the same table
\* with its boost column added.  The boost values here are a numeric signal
\* of the row (weather, hot streak) or 0 (park factor, pitcher).
apply_overlays(player_df) ==
    Only({[i \in 1..Len(rows) |->
             rows[i] @@ [WeatherBoost |-> rows[i].Temperature,
                         ParkFactorBoost |-> 0, PitcherHRBoost |-> 0,
                         HotStreakBoost |-> rows[i].HR_Season]]
          : rows \in {player_df}})

generate_top30_predictions(f, day, keepTies) ==
    Only({Only({Outcome([f EXCEPT !.top30_full = Write(@, day, top30),
                                  !.top30 = Write(@, day, reduced),
                                  !.top30_latest = File(reduced, day)],
                        "value", top30)
                : reduced \in {Reduced(top30)}})
          : top30 \in {Top30Of(apply_overlays(get_raw_player_data(f)), keepTies)}})

(***************************************************************************)
(* Parlay Builder: models/parlay_stack_builder.py                          *)
(***************************************************************************)
\* list(combinations(top20.index, 2)): the index pairs i < j in
\* lexicographic order (1-based here).  The pairs that start with i follow
\* the Before(i) pairs that start with a smaller index.
Combinations2(n) ==
    LET Before(i) == ((i - 1) * (2 * n - i)) \div 2
    IN  [k \in 1..((n * (n - 1)) \div 2) |->
           Only({<<i, i + (k - Before(i))>>
                 : i \in {CHOOSE x \in 1..(n - 1) :
                             Before(x) < k /\ k <= Before(x + 1)}})]

player_combos(top20) == Only({Combinations2(n) : n \in {Len(top20)}})

\* The keys of the confidence_value dictionary.
KnownTiers == {"A+", "A", "A-", "B+"}

\* What a dictionary lookup with a missing key gives: the KeyError raised.
KeyError == -1

\* confidence_value as it would be with confidence_value.get(tier, 0.0).
confidence_value_get(tier) ==
    CASE tier = "A+" -> 15
      [] tier = "A"  -> 10
      [] tier = "A-" -> 5
      [] OTHER -> 0

\* confidence_value[tier], in hundredths.
confidence_value(tier) ==
    CASE tier = "A+" -> 15
      [] tier = "A"  -> 10
      [] tier = "A-" -> 5
      [] tier = "B+" -> 0
      [] OTHER -> KeyError

\* SameTeam as it would be comparing the Player column.
SameTeamByPlayer(player1, player2) == player1.Player = player2.Player

\* if player1['Team'] == player2['Team']: continue
SameTeam(player1, player2) == player1.Team = player2.Team

\* combo_score, in units of 1/10000.
combo_score(player1, player2) ==
    (player1.HR_Score * player2.HR_Score)
    * (100 + confidence_value(player1.Confidence)
           + confidence_value(player2.Confidence))

StackOf(player1, player2) ==
    [Player1 |-> player1.Player, Team1 |-> player1.Team,
     Player2 |-> player2.Player, Team2 |-> player2.Team,
     Combined_Score |-> combo_score(player1, player2),
     Player1_Confidence |-> player1.Confidence,
     Player2_Confidence |-> player2.Confidence]

\* The candidate pairs the loop keeps, in the order it meets them.
CrossTeamCombos(top20) ==
    Only({Keep(combos, [k \in 1..Len(combos) |->
                          ~SameTeam(top20[combos[k][1]], top20[combos[k][2]])])
          : combos \in {player_combos(top20)}})

\* The loop raises KeyError at a kept pair one of whose tiers is no key of
\* confidence_value.
UnknownTier(top20, combos) ==
    \E k \in 1..Len(combos) :
        \/ confidence_value(top20[combos[k][1]].Confidence) = KeyError
        \/ confidence_value(top20[combos[k][2]].Confidence) = KeyError

\* stacks: one row per kept pair.
StacksOf(top20, combos) ==
    [k \in 1..Len(combos) |-> StackOf(top20[combos[k][1]], top20[combos[k][2]])]

\* TopStacksOf as it would be without ascending=False.
TopStacksOfAscending(stacks, keepTies) ==
    HeadRows(SortDescending(stacks,
                            [k \in 1..Len(stacks) |->
                               Rate(0 - stacks[k].Combined_Score, 1)],
                            keepTies),
             TopStacks)

\* stacks_df.sort_values('Combined_Score', ascending=False).head(15)
TopStacksOf(stacks, keepTies) ==
    HeadRows(SortDescending(stacks,
                            [k \in 1..Len(stacks) |->
                               Rate(stacks[k].Combined_Score, 1)],
                            keepTies),
             TopStacks)

\* An outcome without a table; `examined` counts the pairs the loop went
\* through.
NoStacks(f, st, examined) == Outcome(f, st, <<>>) @@ [examined |-> examined]

\* With the table read: pair, score, rank, write.
StackTop20(f, day, top20, combos, keepTies) ==
    IF UnknownTier(top20, combos)
      THEN NoStacks(f, "raised", Len(player_combos(top20)))
    \* pd.DataFrame([]) has no Combined_Score column: sort_values raises.
    ELSE IF Len(combos) = 0
      THEN NoStacks(f, "raised", Len(player_combos(top20)))
    ELSE
      Only({Outcome([f EXCEPT !.parlays = Write(@, day, top_stacks),
                              !.parlays_latest = File(top_stacks, day)],
                    "value", top_stacks)
              @@ [examined |-> Len(player_combos(top20))]
            : top_stacks \in {Only({TopStacksOf(stacks, keepTies)
                                    : stacks \in {StacksOf(top20, combos)}})}})

build_parlay_stacks(f, day, keepTies, na_none) ==
    IF ~Exists(f.top30_full, day) THEN NoStacks(f, "none", 0)
    ELSE
      Only({Only({StackTop20(f, day, top20, combos, keepTies)
                  : combos \in {CrossTeamCombos(top20)}})
            : top20 \in {HeadRows(read_csv(f.top30_full[day], na_none),
                                  Top20Size)}})

(***************************************************************************)
(* Outcome data source: utils/data_fetcher.py get_actual_hr_data           *)
(***************************************************************************)
\* What one fetch attempt yields: a failure (an exception inside the try), or
\* the day's outcome table.
FetchFailed == [ok |-> FALSE, rows |-> <<>>]
Fetched(rows) == [ok |-> TRUE, rows |-> rows]

\* The attempts of "for attempt in range(max_retries)": `script[a]` is what
\* attempt a yields if it is made.  The result says how many attempts were
\* made and after which of them time.sleep(5) ran.
\* Sleeps as it would be with time.sleep(5) after every failed attempt.
SleepsAfterEach(attempt) == attempt \in 1..max_retries

\* if attempt < max_retries - 1: time.sleep(5), attempt counting from 0 there
\* and from 1 here.
Sleeps(attempt) == attempt - 1 < max_retries - 1

RECURSIVE Attempts(_, _)
Attempts(script, attempt) ==
    IF attempt > max_retries
      THEN [ok |-> FALSE, rows |-> <<>>, made |-> attempt - 1, slept |-> {}]
    ELSE IF script[attempt].ok
      THEN [ok |-> TRUE, rows |-> script[attempt].rows, made |-> attempt,
            slept |-> {}]
    ELSE Only({[rest EXCEPT !.slept =
                  @ \cup (IF Sleeps(attempt) THEN {attempt} ELSE {})]
               : rest \in {Attempts(script, attempt + 1)}})

\* The result: the file system (the cache may have been written), the table
\* (ok) or None (~ok), and the attempts made.
get_actual_hr_data(f, target_date, script) ==
    IF Exists(f.actual, target_date)
      THEN [fs |-> f, ok |-> TRUE, rows |-> f.actual[target_date],
            made |-> 0, slept |-> {}]
    ELSE Only({[fs |-> IF a.ok
                         THEN [f EXCEPT !.actual = Write(@, target_date, a.rows)]
                         ELSE f,
                ok |-> a.ok, rows |-> a.rows, made |-> a.made,
                slept |-> a.slept]
               : a \in {Attempts(script, 1)}})

(***************************************************************************)
(* Outcome Tracker: trackers/hr_tracker.py                                 *)
(***************************************************************************)
\* A merged row of pd.merge(predictions, actual_hr_data, on='Player'): both
\* tables have a Team column, so the merged row has Team_x (left) and Team_y
\* (right) and no Team column.
JoinPredictionActual(p, a) ==
    [Player |-> p.Player, Team_x |-> p.Team, HR_Score |-> p.HR_Score,
     Confidence |-> p.Confidence,
     Team_y |-> a.Team, Date |-> a.Date, HR_Count |-> a.HR_Count]

\* A merged row of pd.merge(actual_hr_data, predictions, on='Player').
JoinActualPrediction(a, p) ==
    [Player |-> a.Player, Team_x |-> a.Team, Date |-> a.Date,
     HR_Count |-> a.HR_Count,
     Team_y |-> p.Team, HR_Score |-> p.HR_Score, Confidence |-> p.Confidence]

\* The right-hand columns of a left row that has no match.
NoActual == [Team |-> NaN, Date |-> NaN, HR_Count |-> NaN]
NoPrediction == [Team |-> NaN, HR_Score |-> NaN, Confidence |-> NaN]

\* The row pairs of pd.merge(left, right, on='Player', how=how): for each left
\* row i in order, one pair <<i, k>> per right row k with the same Player;
\* with how = "left", a left row without a match gives the pair <<i, 0>>.
RECURSIVE MergeFrom(_, _, _, _)
MergeFrom(left, right, how, i) ==
    IF i > Len(left) THEN <<>>
    ELSE
      Only({(IF Len(matches) > 0 THEN [n \in 1..Len(matches) |-> <<row, matches[n]>>]
             ELSE IF how = "left" THEN << <<row, 0>> >>
             ELSE <<>>)
            \o MergeFrom(left, right, how, row + 1)
            : row \in {i},
              matches \in {Keep([k \in 1..Len(right) |-> k],
                                [k \in 1..Len(right) |->
                                   right[k].Player = left[i].Player])}})

Merge(left, right, how) ==
    Only({MergeFrom(l, r, how, 1) : l \in {left}, r \in {right}})

\* The _merge column of a merged row, when asked for.
WithIndicator(row, k, indicator) ==
    IF indicator
      THEN row @@ [_merge |-> IF k = 0 THEN "left_only" ELSE "both"]
      ELSE row

\* pd.merge(predictions, actual_hr_data, on='Player', how=how)
MergePredictionsActual(predictions, actual_hr_data, how, indicator) ==
    Only({[n \in 1..Len(m) |->
             WithIndicator(JoinPredictionActual(
                               predictions[m[n][1]],
                               IF m[n][2] = 0 THEN NoActual
                               ELSE actual_hr_data[m[n][2]]),
                           m[n][2], indicator)]
          : m \in {Merge(predictions, actual_hr_data, how)}})

\* pd.merge(actual_hr_data, predictions, on='Player', how=how)
MergeActualPredictions(actual_hr_data, predictions, how, indicator) ==
    Only({[n \in 1..Len(m) |->
             WithIndicator(JoinActualPrediction(
                               actual_hr_data[m[n][1]],
                               IF m[n][2] = 0 THEN NoPrediction
                               ELSE predictions[m[n][2]]),
                           m[n][2], indicator)]
          : m \in {Merge(actual_hr_data, predictions, how)}})

\* merged[merged['_merge'] == 'left_only']
LeftOnly(merged) ==
    Only({Keep(rows, [n \in 1..Len(rows) |-> rows[n]._merge = "left_only"])
          : rows \in {merged}})

\* hits = pd.merge(predictions, actual_hr_data, on='Player', how='inner')
HitsOf(predictions, actual_hr_data) ==
    MergePredictionsActual(predictions, actual_hr_data, "inner", FALSE)

\* misses = the left_only rows of the left merge of predictions with actual.
MissesOf(predictions, actual_hr_data) ==
    LeftOnly(MergePredictionsActual(predictions, actual_hr_data, "left", TRUE))

\* surprises = the left_only rows of the left merge of actual with predictions.
SurprisesOf(predictions, actual_hr_data) ==
    LeftOnly(MergeActualPredictions(actual_hr_data, predictions, "left", TRUE))

\* HitRecord as it would be with "HR_Count >= 1" for "HR_Count > 1".
HitRecordAnyHR(yesterday, hit) ==
    [Date |-> yesterday, Player |-> hit.Player, Team |-> hit.Team_x,
     HR_Score |-> hit.HR_Score, Confidence |-> hit.Confidence,
     Actual_HR |-> hit.HR_Count, Result |-> "Hit",
     Multiple_HR |-> hit.HR_Count >= 1]

HitRecord(yesterday, hit) ==
    [Date |-> yesterday, Player |-> hit.Player, Team |-> hit.Team_x,
     HR_Score |-> hit.HR_Score, Confidence |-> hit.Confidence,
     Actual_HR |-> hit.HR_Count, Result |-> "Hit",
     Multiple_HR |-> hit.HR_Count > 1]

\* team = miss['Team'] if 'Team' in miss else 'Unknown', and likewise for
\* HR_Score and Confidence.
MissRecord(yesterday, miss) ==
    [Date |-> yesterday, Player |-> miss.Player,
     Team |-> IF "Team" \in DOMAIN miss THEN miss.Team ELSE "Unknown",
     HR_Score |-> IF "HR_Score" \in DOMAIN miss THEN miss.HR_Score ELSE 0,
     Confidence |-> IF "Confidence" \in DOMAIN miss THEN miss.Confidence
                    ELSE "None",
     Actual_HR |-> 0, Result |-> "Miss", Multiple_HR |-> FALSE]

SurpriseRecord(yesterday, surprise) ==
    LET team_col == IF "Team_x" \in DOMAIN surprise THEN "Team_x" ELSE "Team"
    IN  [Date |-> yesterday, Player |-> surprise.Player,
         Team |-> IF team_col \in DOMAIN surprise THEN surprise[team_col]
                  ELSE "Unknown",
         HR_Score |-> 0, Confidence |-> "None",
         Actual_HR |-> IF "HR_Count" \in DOMAIN surprise THEN surprise.HR_Count
                       ELSE 1,
         Result |-> "Surprise",
         Multiple_HR |-> IF "HR_Count" \in DOMAIN surprise
                           THEN surprise.HR_Count > 1 ELSE FALSE]

\* tracking_results: the Hit, then the Miss, then the Surprise records.
TrackingResults(yesterday, predictions, actual_hr_data) ==
    Only({[k \in 1..Len(hits) |-> HitRecord(yesterday, hits[k])]
          \o [k \in 1..Len(misses) |-> MissRecord(yesterday, misses[k])]
          \o [k \in 1..Len(surprises) |->
                SurpriseRecord(yesterday, surprises[k])]
          : hits \in {HitsOf(predictions, actual_hr_data)},
            misses \in {MissesOf(predictions, actual_hr_data)},
            surprises \in {SurprisesOf(predictions, actual_hr_data)}})

\* The cumulative file after a run: the old rows followed by the day's, or the
\* day's rows alone when there was no file.
AppendCumulative(cumulative, tracking_df, na_none) ==
    IF cumulative.exists
      THEN File(read_csv(cumulative.rows, na_none) \o tracking_df, 0)
      ELSE File(tracking_df, 0)

\* What a tracker run read: the prediction table it loaded, the date that
\* table was produced for, the outcome table, and the fetch attempts made.
NoTrackingInput ==
    [loaded |-> FALSE, predictions |-> <<>>, produced_for |-> 0,
     fetched |-> FALSE, actual_hr_data |-> <<>>, made |-> 0, slept |-> {}]

\* What a run read, the prediction table being loaded.
TrackingInput(predictions, produced_for, got) ==
    [loaded |-> TRUE, predictions |-> predictions,
     produced_for |-> produced_for,
     fetched |-> got.ok, actual_hr_data |-> got.rows,
     made |-> got.made, slept |-> got.slept]

\* With both tables read: reconcile and write.
Reconcile(yesterday, predictions, produced_for, got, na_none) ==
    IF ~got.ok \/ Len(got.rows) = 0
      THEN Outcome(got.fs, "none", <<>>)
             @@ [input |-> TrackingInput(predictions, produced_for, got)]
    ELSE
      Only({Outcome([got.fs EXCEPT
                       !.tracking = Write(@, yesterday, tracking_df),
                       !.cumulative = AppendCumulative(@, tracking_df, na_none)],
                    "value", tracking_df)
              @@ [input |-> TrackingInput(predictions, produced_for, got)]
            : tracking_df \in {TrackingResults(yesterday, predictions,
                                               got.rows)}})

\* With the prediction file chosen: load it, fetch the outcomes, reconcile.
TrackWith(f1, yesterday, prediction_file, script, na_none) ==
    Only({Reconcile(yesterday, predictions, prediction_file.date, got, na_none)
          : predictions \in {read_csv(prediction_file.rows, na_none)},
            got \in {get_actual_hr_data(f1, yesterday, script)}})

\* The prediction file the tracker loads, if any: the one of yesterday, or
\* else the 'latest' one.
PredictionFile(f, yesterday) ==
    IF Exists(f.top30, yesterday) THEN File(f.top30[yesterday], yesterday)
    ELSE f.top30_latest

track_home_runs(f, day, script, na_none) ==
    Only({IF ~prediction_file.exists
            THEN Outcome(f1, "none", <<>>) @@ [input |-> NoTrackingInput]
            ELSE TrackWith(f1, day - 1, prediction_file, script, na_none)
          : f1 \in {[f EXCEPT !.tracking_dir = TRUE]},
            prediction_file \in {PredictionFile(f, day - 1)}})

(***************************************************************************)
(* Diagnostics: trackers/shadow_diagnostics.py                             *)
(***************************************************************************)
\* hit_rate_threshold = 0.20 and surprise_rate_threshold = 0.50, in percent.
hit_rate_threshold == 20
surprise_rate_threshold == 50

\* last_week as it would be with range(1, 9).
last_eight_days(day) == [i \in 1..(WindowDays + 1) |-> day - i]

\* last_week = [today - i for i in range(1, 8)]
last_week(day) == [i \in 1..WindowDays |-> day - i]

\* The tracking files of last_week that exist, in that order.
RECURSIVE TrackingData(_, _, _, _)
TrackingData(f, days, i, na_none) ==
    IF i > Len(days) THEN <<>>
    ELSE (IF Exists(f.tracking, days[i])
            THEN <<read_csv(f.tracking[days[i]], na_none)>> ELSE <<>>)
           \o TrackingData(f, days, i + 1, na_none)

\* pd.concat(tracking_data, ignore_index=True)
RECURSIVE Concat(_, _)
Concat(frames, i) ==
    IF i > Len(frames) THEN <<>> ELSE frames[i] \o Concat(frames, i + 1)

\* The group keys of groupby come out sorted; the team names in that order.
TeamNames == <<"ATL", "BOS", "LAA", "LAD", "NYM", "NYY", "PHI", "SD", "Unknown">>

\* (x == 'Hit').mean() over the non-Surprise rows of the group whose `column`
\* is `value`.
SuccessRate(rows, column, value) ==
    Rate(Cardinality({i \in 1..Len(rows) :
            rows[i].Result = "Hit" /\ rows[i][column] = value}),
         Cardinality({i \in 1..Len(rows) :
            rows[i].Result # "Surprise" /\ rows[i][column] = value}))

\* The teams that have a non-Surprise record, in groupby order.
TeamsPresent(rows) ==
    Keep(TeamNames,
         [t \in 1..Len(TeamNames) |->
            \E i \in 1..Len(rows) :
               rows[i].Result # "Surprise" /\ rows[i].Team = TeamNames[t]])

\* team_performance: one row per team that has a non-Surprise record, sorted
\* by Success_Rate, highest first.
TeamPerformance(combined_df, keepTies) ==
    Only({SortDescending(table,
                         [k \in 1..Len(table) |-> table[k].Success_Rate],
                         keepTies)
          : table \in {Only({[k \in 1..Len(present) |->
                                [Team |-> present[k],
                                 Success_Rate |->
                                   SuccessRate(combined_df, "Team", present[k])]]
                             : present \in {TeamsPresent(combined_df)}})}})

\* The counts of the Hit, Miss and Surprise records.
CountsOf(rows) ==
    [hit |-> Cardinality({i \in 1..Len(rows) : rows[i].Result = "Hit"}),
     miss |-> Cardinality({i \in 1..Len(rows) : rows[i].Result = "Miss"}),
     surprise |->
        Cardinality({i \in 1..Len(rows) : rows[i].Result = "Surprise"})]

ReportOf(day, days_analyzed, combined_df, counts, team_performance) ==
    LET hit_count == counts.hit
        miss_count == counts.miss
        surprise_count == counts.surprise
        total_predictions == hit_count + miss_count
        total_hrs == hit_count + surprise_count
        hit_rate == Rate(hit_count, total_predictions)
        surprise_rate == Rate(surprise_count, total_hrs)
        n == Len(team_performance)
    IN  [Date |-> day,
         Days_Analyzed |-> days_analyzed,
         Total_Predictions |-> total_predictions,
         Hit_Count |-> hit_count,
         Miss_Count |-> miss_count,
         Surprise_Count |-> surprise_count,
         Hit_Rate |-> hit_rate,
         Surprise_Rate |-> surprise_rate,
         Best_Team |-> IF n > 0 THEN team_performance[1].Team ELSE "N/A",
         Best_Team_Rate |-> IF n > 0 THEN team_performance[1].Success_Rate
                            ELSE Rate(0, 0),
         Worst_Team |-> IF n > 0 THEN team_performance[n].Team ELSE "N/A",
         Worst_Team_Rate |-> IF n > 0 THEN team_performance[n].Success_Rate
                             ELSE Rate(0, 0),
         Aplus_Performance |-> SuccessRate(combined_df, "Confidence", "A+"),
         Hit_Rate_Alert |-> RateBelow(hit_rate, hit_rate_threshold),
         Surprise_Rate_Alert |-> RateAbove(surprise_rate, surprise_rate_threshold)]

DiagnosticReport(day, tracking_data, keepTies) ==
    Only({Only({ReportOf(day, Len(tracking_data), combined_df, counts,
                         team_performance)
                : counts \in {CountsOf(combined_df)},
                  team_performance \in {TeamPerformance(combined_df, keepTies)}})
          : combined_df \in {Concat(tracking_data, 1)}})

\* AlertsOf as it would be with "elif" for the second "if".
AlertsOfFirstOnly(report) ==
    IF RateBelow(report.Hit_Rate, hit_rate_threshold)
      THEN <<[Date |-> report.Date, alert |-> "Hit rate below threshold",
              rate |-> report.Hit_Rate]>>
    ELSE IF RateAbove(report.Surprise_Rate, surprise_rate_threshold)
      THEN <<[Date |-> report.Date, alert |-> "Surprise rate above threshold",
              rate |-> report.Surprise_Rate]>>
    ELSE <<>>

\* The alerts list: the hit-rate warning, then the surprise-rate warning.
AlertsOf(report) ==
    (IF RateBelow(report.Hit_Rate, hit_rate_threshold)
       THEN <<[Date |-> report.Date, alert |-> "Hit rate below threshold",
               rate |-> report.Hit_Rate]>>
       ELSE <<>>)
    \o (IF RateAbove(report.Surprise_Rate, surprise_rate_threshold)
          THEN <<[Date |-> report.Date, alert |-> "Surprise rate above threshold",
                  rate |-> report.Surprise_Rate]>>
          ELSE <<>>)

\* send_email_alerts as it would be with int(smtp_port) evaluated before the
\* try block.
send_email_alerts_port_unguarded(mail) ==
    IF mail.config # "complete" THEN "skipped"
    ELSE IF ~mail.port_ok THEN "raised"
    ELSE IF mail.server # "ok" THEN "failed"
    ELSE "sent"

\* The notification channel: the SMTP_* / ALERT_EMAIL environment
\* (config: "absent", "incomplete" or "complete"; port_ok: SMTP_PORT is a
\* number) and what the server does (server: "unreachable", "starttls_fails",
\* "login_fails", "send_fails" or "ok").
\* The result: "skipped" (configuration missing), "failed" (an exception
\* caught and printed), "sent", or "raised" (an exception left the function).
send_email_alerts(mail) ==
    IF mail.config # "complete" THEN "skipped"
    \* from here on inside try/except Exception
    ELSE IF ~mail.port_ok THEN "failed"
    ELSE IF mail.server # "ok" THEN "failed"
    ELSE "sent"

NoNotification == "not_called"

\* With the report computed: write it, log the alerts, notify.
ReportAndAlert(f, day, diagnostic_report, alerts, mail) ==
    Only({IF delivery = "raised"
            THEN Outcome(f1, "raised", <<>>) @@ [delivery |-> delivery]
            ELSE Outcome(f1, "value", <<diagnostic_report>>)
                   @@ [delivery |-> delivery]
          : f1 \in {[f EXCEPT !.report = Write(@, day, diagnostic_report),
                              !.alerts = @ \o alerts]},
            delivery \in {IF Len(alerts) > 0 THEN send_email_alerts(mail)
                          ELSE NoNotification}})

\* With the tracking files of the window loaded.
Diagnose(f, day, tracking_data, mail, keepTies) ==
    IF Len(tracking_data) = 0
      THEN Outcome(f, "none", <<>>) @@ [delivery |-> NoNotification]
      ELSE Only({ReportAndAlert(f, day, diagnostic_report,
                                AlertsOf(diagnostic_report), mail)
                 : diagnostic_report \in
                     {DiagnosticReport(day, tracking_data, keepTies)}})

run_shadow_diagnostics(f, day, mail, keepTies, na_none) ==
    IF ~f.tracking_dir
      THEN Outcome(f, "none", <<>>) @@ [delivery |-> NoNotification]
      ELSE Only({Diagnose(f, day, tracking_data, mail, keepTies)
                 : tracking_data \in
                     {TrackingData(f, last_week(day), 1, na_none)}})

(***************************************************************************)
(* Runner: run_daily_simulation.py                                         *)
(***************************************************************************)
\* A stage the runner never reached, an earlier call having raised.
NotReached(f) == Outcome(f, "notrun", <<>>)
Ended(o) == o.st \in {"value", "none"}

\* The Parlay Builder, called if the Predictor returned.
ThenParlays(top30, day, keepTies, na_none) ==
    IF Ended(top30) THEN build_parlay_stacks(top30.fs, day, keepTies, na_none)
    ELSE NotReached(top30.fs) @@ [examined |-> 0]

\* The Tracker, called if the Parlay Builder returned.
ThenTracking(parlays, day, script, na_none) ==
    IF Ended(parlays) THEN track_home_runs(parlays.fs, day, script, na_none)
    ELSE NotReached(parlays.fs) @@ [input |-> NoTrackingInput]

\* The Diagnostics, called if the Tracker returned.
ThenDiagnostics(tracking, day, mail, keepTies, na_none) ==
    IF Ended(tracking)
      THEN run_shadow_diagnostics(tracking.fs, day, mail, keepTies, na_none)
      ELSE NotReached(tracking.fs) @@ [delivery |-> NoNotification]

\* The four calls in order; an exception in one leaves the function, so the
\* calls after it are not made and no dictionary is returned.
run_daily_simulation(f, day, script, mail, keepTies, na_none) ==
    Only({Only({Only({Only({
            [fs |-> diagnostics.fs, returned |-> Ended(diagnostics),
             predictions |-> top30, parlays |-> parlays,
             tracking |-> tracking, diagnostics |-> diagnostics]
            : diagnostics \in {ThenDiagnostics(tracking, day, mail, keepTies,
                                               na_none)}})
            : tracking \in {ThenTracking(parlays, day, script, na_none)}})
            : parlays \in {ThenParlays(top30, day, keepTies, na_none)}})
            : top30 \in {generate_top30_predictions(f, day, keepTies)}})

(***************************************************************************)
(* Inputs: the player data installed under data/, the outcome feed and the *)
(* notification channel.                                                   *)
(***************************************************************************)
\* A row of data/raw_player_stats.csv; Temperature and HR_Season stand for
\* the signals the overlays read.
PlayerRow(player, team, barrel, hot) ==
    [Player |-> player, Team |-> team, Barrel |-> barrel,
     LaunchAngleSweetSpot |-> 1, xISO |-> 0, Temperature |-> 1,
     HR_Season |-> hot]

\* Two players of one team: no cross-team pair.
OneTeam ==
    <<PlayerRow("Juan Soto", "NYY", 7, 0), PlayerRow("Aaron Judge", "NYY", 9, 1)>>
\* Six players of five teams, two of them different players with one name.
SixPlayers ==
    <<PlayerRow("Aaron Judge", "NYY", 9, 1), PlayerRow("Rafael Devers", "BOS", 5, 0),
      PlayerRow("Juan Soto", "NYY", 7, 0), PlayerRow("Matt Olson", "ATL", 5, 0),
      PlayerRow("Pete Alonso", "NYM", 4, 0), PlayerRow("Juan Soto", "SD", 3, 0)>>

SmallPlayerTables == {OneTeam, SixPlayers}

\* A large table: `rows` players "Player i"; the team of player i cycles
\* through the first `teams` team names; `scores` picks the metric pattern
\* (1: all different, falling with i; 2: all equal; 3: rising, with ties).
PlayerName(i) == "Player " \o ToString(i)
LargeTeams == <<"NYY", "BOS", "LAD", "ATL">>
LargePlayerTable(rows, teams, scores) ==
    [i \in 1..rows |->
       PlayerRow(PlayerName(i), LargeTeams[((i - 1) % teams) + 1],
                 CASE scores = 1 -> 2 * (rows - i) + 1
                   [] scores = 2 -> 5
                   [] scores = 3 -> i \div 2,
                 IF scores = 3 THEN i % 2 ELSE 0)]

LargePlayerTables ==
    {LargePlayerTable(rows, teams, scores) :
       rows \in {3, 6, Top20Size, MaxRows}, teams \in 1..4, scores \in 1..3}

\* A row of an outcome table: one row per player and team with a home run on
\* date d (the feed groups its rows by player, team and date).
HrRow(player, team, count, d) ==
    [Player |-> player, Team |-> team, Date |-> d, HR_Count |-> count]

\* What the three attempts of a fetch for date d would yield, for each of the
\* behaviours of the feed: the table at the first attempt, at the second, at
\* the third, or no table at all.
FetchScripts(d) ==
    << <<Fetched(<<HrRow("Aaron Judge", "NYY", 1, d)>>), FetchFailed, FetchFailed>>,
       <<FetchFailed,
         Fetched(<<HrRow("Aaron Judge", "NYY", 1, d),
                   HrRow("Juan Soto", "NYY", 2, d)>>),
         FetchFailed>>,
       <<FetchFailed, FetchFailed,
         Fetched(<<HrRow("Aaron Judge", "NYY", 1, d),
                   HrRow("Rafael Devers", "BOS", 1, d),
                   HrRow("Mookie Betts", "LAD", 2, d),
                   HrRow("Shohei Ohtani", "LAD", 1, d),
                   HrRow("Mike Trout", "LAA", 1, d)>>)>>,
       <<FetchFailed, FetchFailed, FetchFailed>>,
       <<Fetched(<<HrRow("Aaron Judge", "NYY", 2, d),
                   HrRow("Mookie Betts", "LAD", 1, d),
                   HrRow("Shohei Ohtani", "LAD", 1, d)>>),
         FetchFailed, FetchFailed>> >>

\* The home runs of a date are a fact of the world: `feed` fixes, for every
\* date, which of the scripts the outcome source follows for it.
FeedScript(k, d) == FetchScripts(d)[((d + k) % Len(FetchScripts(d))) + 1]
Feeds == 0..(Len(FetchScripts(0)) - 1)

MailEnvs ==
    { [config |-> "absent", port_ok |-> TRUE, server |-> "ok"],
      [config |-> "incomplete", port_ok |-> TRUE, server |-> "ok"],
      [config |-> "complete", port_ok |-> FALSE, server |-> "ok"],
      [config |-> "complete", port_ok |-> TRUE, server |-> "unreachable"],
      [config |-> "complete", port_ok |-> TRUE, server |-> "login_fails"],
      [config |-> "complete", port_ok |-> TRUE, server |-> "send_fails"],
      [config |-> "complete", port_ok |-> TRUE, server |-> "ok"] }

(***************************************************************************)
(* The state machine.                                                      *)
(***************************************************************************)
\* The data directory holding only the player data.
EmptyFs(player_df) ==
    [raw_player_stats |-> player_df,
     top30_full |-> <<>>, top30 |-> <<>>, top30_latest |-> NoFile,
     parlays |-> <<>>, parlays_latest |-> NoFile,
     actual |-> <<>>,
     tracking_dir |-> FALSE, tracking |-> <<>>, cumulative |-> NoFile,
     report |-> <<>>, alerts |-> <<>>]

\* What `last` keeps of a stage: how it ended and what it returned.
Res(o) == [st |-> o.st, rows |-> o.rows]
NotRun == [st |-> "notrun", rows |-> <<>>]

\* `last`: the entry point that ran last (op), on which day, from which file
\* system (pre), whether it returned, each stage's result, the number of pairs
\* the Parlay Builder examined, what the tracker read and what became of the
\* notification.
NothingRan ==
    [op |-> "none", day |-> 0, pre |-> EmptyFs(<<>>), returned |-> FALSE,
     predictions |-> NotRun, parlays |-> NotRun, tracking |-> NotRun,
     diagnostics |-> NotRun, examined |-> 0, input |-> NoTrackingInput,
     delivery |-> NoNotification]

Ran(op) == [NothingRan EXCEPT !.op = op, !.day = today, !.pre = fs]

Init ==
    /\ today = 1
    /\ fs \in {EmptyFs(t) : t \in SmallPlayerTables}
    /\ last = NothingRan
    /\ nops = 0
    /\ feed \in Feeds

Predictor ==
    /\ nops < MaxOps
    /\ \E keepTies \in BOOLEAN :
         \E o \in {generate_top30_predictions(fs, today, keepTies)} :
             /\ fs' = o.fs
             /\ last' = [Ran("predictor") EXCEPT !.returned = Ended(o),
                                                 !.predictions = Res(o)]
    /\ nops' = nops + 1
    /\ UNCHANGED <<today, feed>>

ParlayBuilder ==
    /\ nops < MaxOps
    /\ \E keepTies \in BOOLEAN, na_none \in BOOLEAN :
         \E o \in {build_parlay_stacks(fs, today, keepTies, na_none)} :
             /\ fs' = o.fs
             /\ last' = [Ran("parlay") EXCEPT !.returned = Ended(o),
                                              !.parlays = Res(o),
                                              !.examined = o.examined]
    /\ nops' = nops + 1
    /\ UNCHANGED <<today, feed>>

Tracker ==
    /\ nops < MaxOps
    /\ \E script \in {FeedScript(feed, today - 1)}, na_none \in BOOLEAN :
         \E o \in {track_home_runs(fs, today, script, na_none)} :
             /\ fs' = o.fs
             /\ last' = [Ran("tracker") EXCEPT !.returned = Ended(o),
                                               !.tracking = Res(o),
                                               !.input = o.input]
    /\ nops' = nops + 1
    /\ UNCHANGED <<today, feed>>

Diagnostics ==
    /\ nops < MaxOps
    /\ \E mail \in MailEnvs, keepTies \in BOOLEAN, na_none \in BOOLEAN :
         \E o \in {run_shadow_diagnostics(fs, today, mail, keepTies, na_none)} :
             /\ fs' = o.fs
             /\ last' = [Ran("diagnostics") EXCEPT
                           !.returned = Ended(o), !.diagnostics = Res(o),
                           !.delivery = o.delivery]
    /\ nops' = nops + 1
    /\ UNCHANGED <<today, feed>>

DailySimulation ==
    /\ nops < MaxOps
    /\ \E script \in {FeedScript(feed, today - 1)}, mail \in MailEnvs,
          keepTies \in BOOLEAN, na_none \in BOOLEAN :
         \E o \in {run_daily_simulation(fs, today, script, mail, keepTies,
                                         na_none)} :
             /\ fs' = o.fs
             /\ last' = [Ran("runner") EXCEPT
                           !.returned = o.returned,
                           !.predictions = Res(o.predictions),
                           !.parlays = Res(o.parlays),
                           !.examined = o.parlays.examined,
                           !.tracking = Res(o.tracking),
                           !.diagnostics = Res(o.diagnostics),
                           !.input = o.tracking.input,
                           !.delivery = o.diagnostics.delivery]
    /\ nops' = nops + 1
    /\ UNCHANGED <<today, feed>>

\* Midnight.
NextDay ==
    /\ today < MaxDay
    /\ today' = today + 1
    /\ UNCHANGED <<fs, last, nops, feed>>

Next ==
    \/ Tracker
    \/ Diagnostics
    \/ DailySimulation
    \/ NextDay

Spec == Init /\ [][Next]_vars

\* The Predictor and the Parlay Builder run alone, on large player tables.
InitRanking ==
    /\ today = 1
    /\ fs \in {EmptyFs(t) : t \in LargePlayerTables}
    /\ last = NothingRan
    /\ nops = 0
    /\ feed = 0

NextRanking ==
    \/ Predictor
    \/ ParlayBuilder

SpecRanking == InitRanking /\ [][NextRanking]_vars

\* The trailing window of the diagnostics: the Tracker and the Diagnostics
\* over more than a week, from the data directory the batch of day 1 leaves.
LastDay == MaxDay + WindowDays

FirstBatch(k) ==
    run_daily_simulation(EmptyFs(SixPlayers), 1, FeedScript(k, 0),
                         CHOOSE mail \in MailEnvs : mail.config = "absent",
                         TRUE, FALSE)

InitWindow ==
    /\ today = 1
    /\ feed \in Feeds
    /\ fs = FirstBatch(feed).fs
    /\ last = NothingRan
    /\ nops = 0

\* A week passes.
NextWeek ==
    /\ today + WindowDays <= LastDay
    /\ today' = today + WindowDays
    /\ UNCHANGED <<fs, last, nops, feed>>

NextWindow ==
    \/ Tracker
    \/ Diagnostics
    \/ NextDay
    \/ NextWeek

SpecWindow == InitWindow /\ [][NextWindow]_vars

\* The Parlay Builder alone, on a day's full prediction file in which one
\* Confidence field holds `tier`: the file as the Predictor wrote it for a
\* large table, with the field of row `bad` edited.
TierTable(rows, teams, bad, tier) ==
    Only({[i \in 1..Len(top30) |->
             IF i = bad THEN [top30[i] EXCEPT !.Confidence = tier]
             ELSE top30[i]]
          : top30 \in {Top30Of(apply_overlays(LargePlayerTable(rows, teams, 1)),
                                  TRUE)}})

EditedTiers == {"A", "C", "None"}

TierTables ==
    {TierTable(rows, teams, IF bad = 0 THEN Top30Size ELSE bad, tier) :
       rows \in {2, 3, Top20Size + 1, MaxRows}, teams \in 1..3,
       bad \in {0, 1, Top20Size + 1}, tier \in EditedTiers}

InitTiers ==
    /\ today = 1
    /\ fs \in {[EmptyFs(<<>>) EXCEPT !.top30_full = Write(@, 1, t)]
               : t \in TierTables}
    /\ last = NothingRan
    /\ nops = 0
    /\ feed = 0

NextTiers == ParlayBuilder

SpecTiers == InitTiers /\ [][NextTiers]_vars

(***************************************************************************)
(* Properties of the Outcome Tracker.                                      *)
(***************************************************************************)
\* The last operation ran the Tracker and it produced records.
Tracked == last.tracking.st = "value"

\* The positions in the produced table of the records of one class, and the
\* players those records name.
RecordsOf(result) ==
    {k \in 1..Len(last.tracking.rows) : last.tracking.rows[k].Result = result}
PlayersOf(result) == {last.tracking.rows[k].Player : k \in RecordsOf(result)}

\* The rows of the prediction table and of the outcome table the Tracker read.
PredictionRows == {last.input.predictions[i] : i \in 1..Len(last.input.predictions)}
OutcomeRows ==
    {last.input.actual_hr_data[i] : i \in 1..Len(last.input.actual_hr_data)}

\* C1: for any prediction table P and outcome table O, the records the
\* Tracker produces satisfy |Hit| + |Miss| = |P| and |Hit| + |Surprise| = |O|,
\* and no player is in more than one of the Hit, Miss and Surprise classes.
PartitionCounts ==
    Tracked =>
        /\ Cardinality(RecordsOf("Hit")) + Cardinality(RecordsOf("Miss"))
             = Len(last.input.predictions)
        /\ Cardinality(RecordsOf("Hit")) + Cardinality(RecordsOf("Surprise"))
             = Len(last.input.actual_hr_data)
        /\ PlayersOf("Hit") \cap PlayersOf("Miss") = {}
        /\ PlayersOf("Hit") \cap PlayersOf("Surprise") = {}
        /\ PlayersOf("Miss") \cap PlayersOf("Surprise") = {}

\* C2: when the prediction file of the target date (yesterday) is absent, or
\* the outcome data of that date is unavailable, the Tracker returns no
\* result, writes no daily tracking file and leaves the cumulative log as it
\* was; records of a date are never computed from predictions produced for
\* another date.
NoResultWithoutArtifacts ==
    last.tracking.st # "notrun" =>
        /\ (~Exists(last.pre.top30, last.day - 1) \/ ~last.input.fetched
              \/ Len(last.input.actual_hr_data) = 0)
             => /\ last.tracking.st = "none"
                /\ fs.tracking = last.pre.tracking
                /\ fs.cumulative = last.pre.cumulative
        /\ Tracked => last.input.produced_for = last.day - 1

\* C3: every record has the field values of its class.  A Hit names a player
\* of both tables, with Actual_HR the matched HR_Count, Multiple_HR =
\* (HR_Count > 1) and Team, HR_Score and Confidence of a prediction row of
\* that player; a Miss names a player of the predictions only, with
\* Actual_HR = 0 and Multiple_HR false; a Surprise names a player of the
\* outcomes only, with HR_Score = 0, Confidence = "None", Actual_HR its
\* HR_Count and Multiple_HR = (HR_Count > 1).  In every record Multiple_HR
\* is true exactly when Actual_HR > 1.
RecordFieldValues ==
    Tracked =>
      \A k \in 1..Len(last.tracking.rows) :
        LET r == last.tracking.rows[k]
            predicted == \E p \in PredictionRows : p.Player = r.Player
            homered == \E a \in OutcomeRows : a.Player = r.Player
        IN  /\ r.Result \in {"Hit", "Miss", "Surprise"}
            /\ r.Result = "Hit" =>
                 \E p \in PredictionRows, a \in OutcomeRows :
                    /\ p.Player = r.Player /\ a.Player = r.Player
                    /\ r.Actual_HR = a.HR_Count
                    /\ r.Multiple_HR = (a.HR_Count > 1)
                    /\ r.Team = p.Team
                    /\ r.HR_Score = p.HR_Score
                    /\ r.Confidence = p.Confidence
            /\ r.Result = "Miss" =>
                 /\ predicted /\ ~homered
                 /\ r.Actual_HR = 0
                 /\ r.Multiple_HR = FALSE
            /\ r.Result = "Surprise" =>
                 /\ ~predicted
                 /\ r.HR_Score = 0
                 /\ r.Confidence = "None"
                 /\ \E a \in OutcomeRows :
                       /\ a.Player = r.Player
                       /\ r.Actual_HR = a.HR_Count
                       /\ r.Multiple_HR = (a.HR_Count > 1)
            /\ r.Multiple_HR = (r.Actual_HR > 1)

\* A run that produced records of all three classes, one of them of a player
\* with more than one home run.
AllThreeClasses ==
    /\ Tracked
    /\ RecordsOf("Hit") # {} /\ RecordsOf("Miss") # {}
    /\ RecordsOf("Surprise") # {}
    /\ \E k \in RecordsOf("Hit") : last.tracking.rows[k].Actual_HR > 1

\* C4: the cumulative log is append-only: a successful run leaves the rows
\* that were in the log in place and unaltered and adds the day's records
\* after them (a rerun for the same date adds one more copy).
CumulativeAppendOnly ==
    Tracked =>
        LET before == last.pre.cumulative.rows
            after == fs.cumulative.rows
        IN  /\ fs.cumulative.exists
            /\ Len(after) = Len(before) + Len(last.tracking.rows)
            /\ SubSeq(after, 1, Len(before)) = before
            /\ SubSeq(after, Len(before) + 1, Len(after)) = last.tracking.rows

(***************************************************************************)
(* Properties of the runner.                                               *)
(***************************************************************************)
\* C5: in a batch every stage is invoked however an earlier stage ended, and
\* the runner returns its per-stage record.
StagesIndependent ==
    last.op = "runner" =>
        /\ last.predictions.st # "notrun"
        /\ last.parlays.st # "notrun"
        /\ last.tracking.st # "notrun"
        /\ last.diagnostics.st # "notrun"
        /\ last.returned

(***************************************************************************)
(* Properties of the Diagnostics.                                          *)
(***************************************************************************)
\* The dates of the trailing window of the last operation for which a
\* tracking file existed when it started.
InWindow ==
    {d \in (last.day - WindowDays)..(last.day - 1) :
        Exists(last.pre.tracking, d)}

\* The records of one class in the tracking files of the window.
Windowed(result) ==
    UNION {{<<d, k>> : k \in {k \in 1..Len(last.pre.tracking[d]) :
                                last.pre.tracking[d][k].Result = result}} :
           d \in InWindow}

\* C6: a Diagnostics run aggregates exactly the records of the tracking
\* files that exist for the 7 dates today-1 .. today-7: Days_Analyzed is the
\* number of those files and the counts are the counts of their records;
\* with no such file the run returns no result, writes no report and adds
\* nothing to the alert log.
DiagnosticsWindow ==
    last.op = "diagnostics" =>
        IF InWindow = {}
          THEN /\ last.diagnostics.st = "none"
               /\ fs.report = last.pre.report
               /\ fs.alerts = last.pre.alerts
          ELSE /\ last.diagnostics.st = "value"
               /\ LET report == last.diagnostics.rows[1]
                  IN  /\ report.Days_Analyzed = Cardinality(InWindow)
                      /\ report.Hit_Count = Cardinality(Windowed("Hit"))
                      /\ report.Miss_Count = Cardinality(Windowed("Miss"))
                      /\ report.Surprise_Count
                           = Cardinality(Windowed("Surprise"))

\* A run that reported on a window while a tracking file older than the
\* window existed.
OlderFileLeftOut ==
    /\ last.op = "diagnostics"
    /\ last.diagnostics.st = "value"
    /\ \E d \in DOMAIN last.pre.tracking : d < last.day - WindowDays

\* The number of alert flags a report sets.
FlagsSet(report) ==
    (IF report.Hit_Rate_Alert THEN 1 ELSE 0)
    + (IF report.Surprise_Rate_Alert THEN 1 ELSE 0)

\* C7: in every report, with hit_rate = hits / (hits + misses) and
\* surprise_rate = surprises / (hits + surprises), each 0 when its
\* denominator is 0, Hit_Rate_Alert is (hit_rate < 0.20) and
\* Surprise_Rate_Alert is (surprise_rate > 0.50); the run adds one line to
\* the alert log per flag set and leaves the earlier lines as they were.
AlertFlags ==
    last.diagnostics.st = "value" =>
        LET report == last.diagnostics.rows[1]
            predictions == report.Hit_Count + report.Miss_Count
            home_runs == report.Hit_Count + report.Surprise_Count
            hit_num == IF predictions > 0 THEN report.Hit_Count ELSE 0
            hit_den == IF predictions > 0 THEN predictions ELSE 1
            surprise_num == IF home_runs > 0 THEN report.Surprise_Count ELSE 0
            surprise_den == IF home_runs > 0 THEN home_runs ELSE 1
        IN  /\ report.Hit_Rate_Alert = (100 * hit_num < 20 * hit_den)
            /\ report.Surprise_Rate_Alert
                 = (100 * surprise_num > 50 * surprise_den)
            /\ Len(fs.alerts) = Len(last.pre.alerts) + FlagsSet(report)
            /\ SubSeq(fs.alerts, 1, Len(last.pre.alerts)) = last.pre.alerts
            /\ \A k \in (Len(last.pre.alerts) + 1)..Len(fs.alerts) :
                  fs.alerts[k].Date = last.day

\* A run whose report sets both flags.
BothAlerts ==
    /\ last.diagnostics.st = "value"
    /\ last.diagnostics.rows[1].Hit_Rate_Alert
    /\ last.diagnostics.rows[1].Surprise_Rate_Alert
    /\ Len(fs.alerts) = Len(last.pre.alerts) + 2

\* C8: the notification is best-effort: whatever the state of the
\* notification channel, a Diagnostics run that raised an alert completes and
\* returns its report, the report is written and the alert lines are in the
\* alert log.
NotificationBestEffort ==
    last.delivery # NoNotification =>
        /\ last.diagnostics.st = "value"
        /\ last.returned
        /\ Exists(fs.report, last.day)
        /\ fs.report[last.day] = last.diagnostics.rows[1]
        /\ Len(fs.alerts) > Len(last.pre.alerts)

\* A run whose notification failed.
NotificationFailed ==
    /\ last.delivery = "failed"
    /\ last.diagnostics.st = "value"

(***************************************************************************)
(* Properties of the Parlay Builder.                                       *)
(***************************************************************************)
\* The first 20 rows of the prediction table of the day of the last
\* operation.
FirstTwenty ==
    IF Exists(fs.top30_full, last.day)
      THEN SubSeq(fs.top30_full[last.day], 1,
                  IF Len(fs.top30_full[last.day]) < 20
                    THEN Len(fs.top30_full[last.day]) ELSE 20)
      ELSE <<>>

\* The pairs of rows i < j of FirstTwenty that are of different teams.
CrossTeamPairs ==
    {c \in (1..Len(FirstTwenty)) \X (1..Len(FirstTwenty)) :
        c[1] < c[2] /\ FirstTwenty[c[1]].Team # FirstTwenty[c[2]].Team}

\* The stack s pairs rows i and j.
Pairs(s, i, j) ==
    /\ s.Player1 = FirstTwenty[i].Player /\ s.Team1 = FirstTwenty[i].Team
    /\ s.Player2 = FirstTwenty[j].Player /\ s.Team2 = FirstTwenty[j].Team

\* The two players of a stack, as an unordered pair.
Unordered(s) == {<<s.Player1, s.Team1>>, <<s.Player2, s.Team2>>}

\* C9: every pair the Parlay Builder emits is of two distinct players among
\* the first 20 rows of the day's prediction table, of different teams; no
\* unordered pair is emitted twice; for 20 players 190 pairs are examined.
ParlayPairs ==
    last.parlays.st = "value" =>
        LET stacks == last.parlays.rows
        IN  /\ \A k \in 1..Len(stacks) :
                  /\ stacks[k].Team1 # stacks[k].Team2
                  /\ \E i, j \in 1..Len(FirstTwenty) :
                        i # j /\ Pairs(stacks[k], i, j)
            /\ \A k, l \in 1..Len(stacks) :
                  k # l => Unordered(stacks[k]) # Unordered(stacks[l])
            /\ Len(FirstTwenty) = 20 => last.examined = 190

\* A run on 20 players, some of them team-mates.
TwentyWithTeamMates ==
    /\ last.parlays.st = "value"
    /\ last.examined = 190
    /\ \E i, j \in 1..Len(FirstTwenty) :
          i < j /\ FirstTwenty[i].Team = FirstTwenty[j].Team

\* The Combined_Score of rows i and j, in units of 1/10000:
\* HR_Score_1 * HR_Score_2 * (1 + bonus(tier_1) + bonus(tier_2)).
ScoreOf(i, j) ==
    FirstTwenty[i].HR_Score * FirstTwenty[j].HR_Score
    * (100 + confidence_value(FirstTwenty[i].Confidence)
           + confidence_value(FirstTwenty[j].Confidence))

\* The returned table is written under the dated and the 'latest' key, is in
\* non-increasing order of Combined_Score, every row has the score of its
\* pair, and no cross-team pair left out scores above a returned one.
RankedAndPersisted ==
    LET stacks == last.parlays.rows
    IN  /\ Exists(fs.parlays, last.day)
        /\ fs.parlays[last.day] = stacks
        /\ fs.parlays_latest.exists
        /\ fs.parlays_latest.rows = stacks
        /\ \A k \in 1..(Len(stacks) - 1) :
              stacks[k].Combined_Score >= stacks[k + 1].Combined_Score
        /\ \A k \in 1..Len(stacks) :
              \E c \in CrossTeamPairs :
                 /\ Pairs(stacks[k], c[1], c[2])
                 /\ stacks[k].Combined_Score = ScoreOf(c[1], c[2])
        /\ \A c \in CrossTeamPairs :
              \/ \E k \in 1..Len(stacks) : Pairs(stacks[k], c[1], c[2])
              \/ \A k \in 1..Len(stacks) :
                    stacks[k].Combined_Score >= ScoreOf(c[1], c[2])

\* C10 as stated: the Parlay Builder returns and persists 15 pairs, ranked.
FifteenStacks ==
    last.parlays.st = "value" =>
        /\ Len(last.parlays.rows) = 15
        /\ RankedAndPersisted

\* C10: whenever the Parlay Builder returns a table, the table has 15 pairs,
\* or all the cross-team pairs of the first 20 rows when there are fewer than
\* 15, and it is persisted and ranked.
TopStacksRanked ==
    last.parlays.st = "value" =>
        /\ Len(last.parlays.rows)
             = (IF Cardinality(CrossTeamPairs) < 15
                  THEN Cardinality(CrossTeamPairs) ELSE 15)
        /\ RankedAndPersisted

\* A run that returned 15 pairs and left others out.
SomeStacksLeftOut ==
    /\ last.parlays.st = "value"
    /\ Len(last.parlays.rows) = 15
    /\ Cardinality(CrossTeamPairs) > 15

\* The rows of the day's full prediction file, as the Parlay Builder found
\* them, whose Confidence is none of A+, A, A-, B+.
TierRows ==
    IF last.op = "parlay" /\ Exists(last.pre.top30_full, last.day)
      THEN {i \in 1..Len(last.pre.top30_full[last.day]) :
              last.pre.top30_full[last.day][i].Confidence \notin KnownTiers}
      ELSE {}

\* The run ended with an exception and left both parlay files as they were.
FailedWithoutArtifact ==
    /\ last.parlays.st = "raised"
    /\ fs.parlays = last.pre.parlays
    /\ fs.parlays_latest = last.pre.parlays_latest

\* C11 as stated: the Parlay Builder fails, and writes no parlay file, when
\* any row of the table it reads has a Confidence outside {A+, A, A-, B+}.
FailsOnAnyTier ==
    (last.op = "parlay" /\ TierRows # {}) => FailedWithoutArtifact

\* C11: the Parlay Builder fails, and writes no parlay file, when one of the
\* first 20 rows of the table it reads has a Confidence outside
\* {A+, A, A-, B+}; a run on a table whose first 20 rows all have a tier of
\* that set, and hold players of two teams, returns a table.
FailsOnTierOfFirstTwenty ==
    last.op = "parlay" =>
        /\ (\E i \in TierRows : i <= 20) => FailedWithoutArtifact
        /\ ((\A i \in TierRows : i > 20) /\ CrossTeamPairs # {})
              => last.parlays.st = "value"

\* A run that failed on a tier of a player who has a team-mate and an
\* opponent among the first 20 rows.
FailedOnTier ==
    /\ last.op = "parlay"
    /\ FailedWithoutArtifact
    /\ CrossTeamPairs # {}
    /\ \E i \in TierRows : i <= 20

\* The player table the Predictor scored in its last run: the raw table with
\* the boost columns.
PlayerTable ==
    IF last.op = "predictor" THEN apply_overlays(last.pre.raw_player_stats)
    ELSE <<>>

\* Row i of PlayerTable is among the rows the Predictor returned.
Selected(i) ==
    \E k \in 1..Len(last.predictions.rows) :
        /\ last.predictions.rows[k].Player = PlayerTable[i].Player
        /\ last.predictions.rows[k].Team = PlayerTable[i].Team

\* C12: for a player table of 30 rows or more the Predictor returns exactly
\* 30 rows, each a row of the table with its HR_Score and no row twice, in
\* non-increasing order of HR_Score, and no row it leaves out has an HR_Score
\* above that of a row it returns.
Top30Ranked ==
    (last.op = "predictor" /\ Len(PlayerTable) >= 30) =>
        LET top30 == last.predictions.rows
        IN  /\ last.predictions.st = "value"
            /\ Len(top30) = 30
            /\ \A k \in 1..(Len(top30) - 1) :
                  top30[k].HR_Score >= top30[k + 1].HR_Score
            /\ \A k \in 1..Len(top30) :
                  \E i \in 1..Len(PlayerTable) :
                     /\ top30[k].Player = PlayerTable[i].Player
                     /\ top30[k].Team = PlayerTable[i].Team
                     /\ top30[k].HR_Score = HRScore(PlayerTable[i])
            /\ \A k, l \in 1..Len(top30) :
                  k # l => top30[k].Player # top30[l].Player
            /\ \A i \in 1..Len(PlayerTable) :
                  Selected(i) \/ \A k \in 1..Len(top30) :
                                    HRScore(PlayerTable[i]) <= top30[k].HR_Score

\* A run on more than 30 players that left out one of the first 30 rows of
\* the table and returned a later one.
EarlyRowLeftOut ==
    /\ last.op = "predictor"
    /\ Len(PlayerTable) > 30
    /\ Len(last.predictions.rows) = 30
    /\ \E i \in 1..30 : ~Selected(i)
    /\ \E i \in 31..Len(PlayerTable) : Selected(i)

\* The HR_Score values of the rows the Predictor returned, and the j-th of
\* them in ascending order (1-based), whatever the order of the rows.
Top30Scores == [k \in 1..Len(last.predictions.rows) |->
                  last.predictions.rows[k].HR_Score]

OrderStat(j) ==
    CHOOSE v \in {Top30Scores[k] : k \in 1..Len(Top30Scores)} :
        /\ Cardinality({k \in 1..Len(Top30Scores) : Top30Scores[k] < v}) < j
        /\ j <= Cardinality({k \in 1..Len(Top30Scores) : Top30Scores[k] <= v})

\* 100 times the q-th percentile of Top30Scores, linearly interpolated
\* between the order statistics around position q/100 * (n - 1).
Cutoff100(q) ==
    LET h  == q * (Len(Top30Scores) - 1)
        lo == (h \div 100) + 1
    IN  IF h % 100 = 0 THEN 100 * OrderStat(lo)
        ELSE 100 * OrderStat(lo) + (h % 100) * (OrderStat(lo + 1) - OrderStat(lo))

TierRank(tier) ==
    CASE tier = "A+" -> 4 [] tier = "A" -> 3 [] tier = "A-" -> 2
      [] tier = "B+" -> 1 [] OTHER -> 0

\* C13: every row the Predictor returns is labelled A+ when its HR_Score is
\* at least the 90th percentile of the returned rows' scores, else A when at
\* least the 75th, else A- when at least the 60th, else B+, the percentiles
\* being linearly interpolated; a row with a higher score never has a lower
\* tier.
ConfidenceByPercentile ==
    (last.op = "predictor" /\ last.predictions.st = "value") =>
        LET top30 == last.predictions.rows
            c90 == Cutoff100(90)
            c75 == Cutoff100(75)
            c60 == Cutoff100(60)
        IN  /\ \A k \in 1..Len(top30) :
                  top30[k].Confidence =
                     (IF 100 * top30[k].HR_Score >= c90 THEN "A+"
                      ELSE IF 100 * top30[k].HR_Score >= c75 THEN "A"
                      ELSE IF 100 * top30[k].HR_Score >= c60 THEN "A-"
                      ELSE "B+")
            /\ \A k, l \in 1..Len(top30) :
                  top30[k].HR_Score > top30[l].HR_Score
                     => TierRank(top30[k].Confidence)
                          >= TierRank(top30[l].Confidence)

\* A run on more than 30 players that gave each of the four labels, with a
\* 90th-percentile cutoff strictly between two scores.
FourTiers ==
    /\ last.op = "predictor"
    /\ Len(PlayerTable) > 30
    /\ Len(last.predictions.rows) = 30
    /\ {last.predictions.rows[k].Confidence : k \in 1..30} = KnownTiers
    /\ \A k \in 1..30 : 100 * last.predictions.rows[k].HR_Score # Cutoff100(90)

\* The last run reached the tracker's call of get_actual_hr_data, for the
\* date FetchDate.
FetchCalled == last.op \in {"tracker", "runner"} /\ last.input.loaded
FetchDate == last.day - 1

\* C14: with no cached outcome file for the date, get_actual_hr_data makes 1
\* to 3 attempts, all before the last one failed; when the last one made
\* succeeded its table is returned and cached, and the delay ran after each
\* failed attempt before it; when it failed it was the third, nothing is
\* cached, the delay ran after the first and the second only, and the caller
\* gets None and ends without an exception.  With a cached file there is no
\* attempt and no delay, and the cached table is returned.
FetchRetries ==
    FetchCalled =>
        LET script == FeedScript(feed, FetchDate)
            got == last.input
        IN  IF Exists(last.pre.actual, FetchDate)
              THEN /\ got.made = 0 /\ got.slept = {}
                   /\ got.fetched
                   /\ got.actual_hr_data = last.pre.actual[FetchDate]
                   /\ fs.actual = last.pre.actual
              ELSE /\ got.made \in 1..3
                   /\ \A a \in 1..(got.made - 1) : ~script[a].ok
                   /\ got.fetched = script[got.made].ok
                   /\ got.fetched =>
                         /\ got.actual_hr_data = script[got.made].rows
                         /\ Exists(fs.actual, FetchDate)
                         /\ fs.actual[FetchDate] = script[got.made].rows
                         /\ got.slept = 1..(got.made - 1)
                   /\ ~got.fetched =>
                         /\ got.made = 3
                         /\ got.slept = {1, 2}
                         /\ fs.actual = last.pre.actual
                         /\ last.tracking.st = "none"

\* A run whose first two attempts failed and whose third returned a table.
ThirdAttemptFetched ==
    /\ FetchCalled
    /\ ~Exists(last.pre.actual, FetchDate)
    /\ last.input.made = 3
    /\ last.input.fetched
    /\ last.input.slept = {1, 2}

\* C15: every Miss record the Tracker produces has as Team the team of a
\* row of that player in the prediction table, and never the placeholder,
\* the prediction table and the outcome table both having a Team column.
MissCarriesTeam ==
    Tracked =>
        \A k \in RecordsOf("Miss") :
            /\ last.tracking.rows[k].Team # "Unknown"
            /\ \E p \in PredictionRows :
                  /\ p.Player = last.tracking.rows[k].Player
                  /\ p.Team = last.tracking.rows[k].Team

====
